---- MODULE Spec2Model ----
(***************************************************************************)
(* Model of the document-import page (ImportPage): the file queue, the     *)
(* per-file status map, the asynchronous handleImport / processSingleFile  *)
(* chain, and the authentication state the page reads.                     *)
(*                                                                         *)
(* File names and extracted texts are sequences of one-character strings,  *)
(* so that split('.'), lastIndexOf('.'), toLowerCase() and trim() are      *)
(* computed, not assumed.                                                  *)
(*                                                                         *)
(* handleImport and processSingleFile are closures of one render: the      *)
(* values of `files`, `user`, `authLoading` and `fileProgress` they read   *)
(* are those of the render in which the button was clicked (cFiles, cUser, *)
(* cProgress below); only the functional updaters setFileProgress(prev =>  *)
(* ...) see the live state.                                                *)
(***************************************************************************)
EXTENDS Integers, Sequences, FiniteSets, TLC

VARIABLES
    files,          \* useState<File[]> (line 28): the queue, a sequence of files
    fileProgress,   \* useState<Record<name, {status, message}>> (line 31)
    isProcessing,   \* useState(false) (line 30)
    user,           \* useAuth().user is non-null (line 33)
    authLoading,    \* useAuth().loading (line 33)
    location,       \* the route last navigated to ("import" = this page)
    notices,        \* toasts raised so far (set of kinds)
    toastHasWarn,   \* whether the imported toast object has a member `warn`
                    \* (lines 172, 178): the toast of 'sonner' offers
                    \* toast.warning, and calling a missing member throws
    pc,             \* position of the handleImport chain
    i,              \* position of the for-of loop in cFiles (1-based)
    cFiles,         \* `files` as captured by the running handleImport
    cUser,          \* `user` as captured by the running handleImport
    cProgress,      \* `fileProgress` as captured by the running handleImport
    allSuccessful,  \* local of handleImport (line 228)
    content,        \* local of processSingleFile (line 119)
    noteId,         \* noteData.id of the running processSingleFile (0: none)
    calls,          \* the calls the chain has issued, in order
    dName,          \* extension dispatch on its own: the file name
    dKind,          \* extension dispatch on its own: the branch taken
    notesCache,     \* Dashboard: data of the query ['notes'] (Dashboard.tsx line 101)
    favCache,       \* Dashboard: the query ['favorite-notes'] (line 108):
                    \* whether it has data, and the data
    serverFav,      \* the backend's is_favorite flag of every note
    staleNotes,     \* ['notes'] was invalidated and is not yet refetched
    staleFav,       \* ['favorite-notes'] was invalidated and is not yet refetched
    toggles,        \* the handleToggleFavorite calls made so far, in order:
                    \* arguments, how the backend call ended ("pending" while
                    \* awaited), and the caches before and after the
                    \* optimistic update
    pdfDoc,         \* PDF extraction on its own: the document, a sequence of
                    \* pages, each the sequence of the `str` of its text items
    pageNum,        \* the loop variable of the pdf branch (line 133)
    pdfText,        \* `text` of the pdf branch (line 132)
    pdfPages,       \* the page numbers passed to pdf.getPage so far, in order
    pdfContent,     \* `content` as the pdf branch assigns it (line 139)
    authUser,       \* AuthProvider: useState<User | null> (AuthContext.tsx line 22)
    session,        \* AuthProvider: useState<Session | null> (line 23)
    initialLoading, \* AuthProvider: useState(true) (line 24), exposed as `loading`
    isAuthenticating, \* AuthProvider: useState(false) (line 25)
    subscription,   \* what supabase.auth.onAuthStateChange returned to the
                    \* mount effect (line 31); "unmounted" before the effect
    notified,       \* the onAuthStateChange callback has run at least once
    inFlight,       \* the signIn, signUp, signOut and resetPassword calls
                    \* that are awaiting the backend, in the order they began
    authStarted,    \* how many such calls were made so far
    authRoute,      \* the route the provider last navigated to
    authToasts,     \* the toasts the provider raised, in order
    searchTerm,     \* Dashboard: useState("") (Dashboard.tsx line 73)
    debouncedSearchTerm, \* Dashboard: useState("") (line 74)
    activeFilterTagIds,  \* Dashboard: useState<string[]>([]) (line 75)
    debounceTimer,  \* the setTimeout of the debounce effect is pending (line 87)
    allNotes,       \* data of the query ['notes'] as the filter reads it
    titleContentSearchedNotes \* data of the search query (line 117):
                    \* whether it is defined, and the notes

vars == <<files, fileProgress, isProcessing, user, authLoading, location,
          notices, toastHasWarn, pc, i, cFiles, cUser, cProgress,
          allSuccessful, content, noteId, calls, dName, dKind,
          notesCache, favCache, serverFav, staleNotes, staleFav, toggles,
          pdfDoc, pageNum, pdfText, pdfPages, pdfContent,
          authUser, session, initialLoading, isAuthenticating, subscription,
          notified, inFlight, authStarted, authRoute, authToasts,
          searchTerm, debouncedSearchTerm, activeFilterTagIds, debounceTimer,
          allNotes, titleContentSearchedNotes>>

pageVars == <<files, fileProgress, isProcessing, user, authLoading, location,
              notices, toastHasWarn, pc, i, cFiles, cUser, cProgress,
              allSuccessful, content, noteId, calls>>

dispatchVars == <<dName, dKind>>

favVars == <<notesCache, favCache, serverFav, staleNotes, staleFav, toggles>>

pdfVars == <<pdfDoc, pageNum, pdfText, pdfPages, pdfContent>>

authVars == <<authUser, session, initialLoading, isAuthenticating,
              subscription, notified, inFlight, authStarted, authRoute,
              authToasts>>

filterVars == <<searchTerm, debouncedSearchTerm, activeFilterTagIds,
                debounceTimer, allNotes, titleContentSearchedNotes>>

\* the state of the parts that the import page does not touch
besideVars == <<dispatchVars, favVars, pdfVars, authVars, filterVars>>

\* likewise for the extension dispatch, the favourite toggle, the PDF
\* extraction, the AuthProvider and the dashboard's filters, each taken on
\* its own
besideDispatchVars == <<pageVars, favVars, pdfVars, authVars, filterVars>>

besideFavVars == <<pageVars, dispatchVars, pdfVars, authVars, filterVars>>

besidePdfVars == <<pageVars, dispatchVars, favVars, authVars, filterVars>>

besideAuthVars == <<pageVars, dispatchVars, favVars, pdfVars, filterVars>>

besideFilterVars == <<pageVars, dispatchVars, favVars, pdfVars, authVars>>

(***************************************************************************)
(* Bounds.                                                                 *)
(***************************************************************************)
MaxFiles == 2       \* longest queue
MaxSelect == 2      \* most files handed over by one select or drop
MaxNotes == 2       \* notes of the user on the dashboard
MaxToggles == 2     \* handleToggleFavorite calls in one behaviour
MaxPages == 2       \* pages of a PDF
MaxItems == 2       \* text items of a page
MaxAuthOps == 2     \* signIn, signUp, signOut and resetPassword calls in one behaviour

(***************************************************************************)
(* Strings.                                                                *)
(***************************************************************************)
Dot == "."

Lower(c) ==
    CASE c = "A" -> "a" [] c = "B" -> "b" [] c = "C" -> "c" [] c = "D" -> "d"
      [] c = "E" -> "e" [] c = "F" -> "f" [] c = "G" -> "g" [] c = "I" -> "i"
      [] c = "J" -> "j" [] c = "M" -> "m" [] c = "N" -> "n" [] c = "O" -> "o"
      [] c = "P" -> "p" [] c = "T" -> "t" [] c = "X" -> "x" [] c = "Y" -> "y"
      [] c = "Z" -> "z" [] OTHER -> c

Upper(c) ==
    CASE c = "a" -> "A" [] c = "b" -> "B" [] c = "c" -> "C" [] c = "d" -> "D"
      [] c = "e" -> "E" [] c = "f" -> "F" [] c = "g" -> "G" [] c = "i" -> "I"
      [] c = "j" -> "J" [] c = "m" -> "M" [] c = "n" -> "N" [] c = "o" -> "O"
      [] c = "p" -> "P" [] c = "t" -> "T" [] c = "x" -> "X" [] c = "y" -> "Y"
      [] c = "z" -> "Z" [] OTHER -> c

\* String.prototype.toLowerCase
ToLowerCase(s) == [k \in 1..Len(s) |-> Lower(s[k])]

\* String.prototype.lastIndexOf(ch): 0-based, -1 when absent
LastIndexOf(s, ch) ==
    IF \E k \in 1..Len(s) : s[k] = ch
    THEN (CHOOSE k \in 1..Len(s) :
              s[k] = ch /\ \A m \in (k+1)..Len(s) : s[m] # ch) - 1
    ELSE -1

\* String.prototype.substring(0, end): a negative end counts as 0
Substring0(s, end) == SubSeq(s, 1, IF end < 0 THEN 0 ELSE end)

\* s.split(ch).pop(): the part after the last ch, or all of s without ch
SplitPop(s, ch) == SubSeq(s, LastIndexOf(s, ch) + 2, Len(s))

IsSpace(c) == c \in {" ", "\n", "\t"}

\* String.prototype.trim
Trim(s) ==
    IF \A k \in 1..Len(s) : IsSpace(s[k])
    THEN << >>
    ELSE LET a == CHOOSE k \in 1..Len(s) :
                      ~IsSpace(s[k]) /\ \A m \in 1..(k-1) : IsSpace(s[m])
             b == CHOOSE k \in 1..Len(s) :
                      ~IsSpace(s[k]) /\ \A m \in (k+1)..Len(s) : IsSpace(s[m])
         IN  SubSeq(s, a, b)

(***************************************************************************)
(* Extension dispatch of processSingleFile.                                *)
(***************************************************************************)
ExtTxt == <<"t","x","t">>
ExtMd == <<"m","d">>
ExtPdf == <<"p","d","f">>
ExtDoc == <<"d","o","c">>
ExtDocx == <<"d","o","c","x">>
ExtPng == <<"p","n","g">>
ExtJpg == <<"j","p","g">>
ExtJpeg == <<"j","p","e","g">>
ExtBmp == <<"b","m","p">>
ExtGif == <<"g","i","f">>
ExtXyz == <<"x","y","z">>

\* the accept list of the file input and the "Supported formats" text
AdvertisedExtensions ==
    {ExtPdf, ExtTxt, ExtDoc, ExtDocx, ExtMd, ExtPng, ExtJpg, ExtJpeg, ExtBmp, ExtGif}

\* const extension = file.name.split('.').pop()?.toLowerCase()
Extension(name) == ToLowerCase(SplitPop(name, Dot))

\* the if / else-if chain on `extension`
Extractor(ext) ==
    IF ext \in {ExtTxt, ExtMd} THEN "text"
    ELSE IF ext = ExtPdf THEN "pdf"
    ELSE IF ext = ExtDocx THEN "docx"
    ELSE IF ext \in {ExtPng, ExtJpg, ExtJpeg, ExtBmp, ExtGif} THEN "ocr"
    ELSE "unsupported"

\* a title cut at the first dot of the name
TitleAtFirstDot(name) ==
    IF \E k \in 2..Len(name) : name[k] = Dot
    THEN SubSeq(name, 1, (CHOOSE k \in 2..Len(name) :
                             name[k] = Dot /\ \A m \in 2..(k-1) : name[m] # Dot) - 1)
    ELSE name

\* const title = file.name.substring(0, file.name.lastIndexOf('.')) || file.name
Title(name) ==
    LET t == Substring0(name, LastIndexOf(name, Dot))
    IN  IF t = << >> THEN name ELSE t

(***************************************************************************)
(* The files a user can queue.  A file is its name together with what the  *)
(* collaborators answer for it: whether its reader / parser / OCR call     *)
(* throws, the text it yields, what createNote returns for it ("id": a     *)
(* record with an id, "null": no record, "throws") and how                *)
(* processNoteWithAI ends for it ("ok", "throws").                         *)
(***************************************************************************)
Name(base, ext) == base \o <<Dot>> \o ext

File(n, x, t, c, a) == [name |-> n, xThrows |-> x, text |-> t, create |-> c, ai |-> a]

TextHi == <<"h","i">>
TextBlank == <<" ","\n">>

GoodTxt == File(Name(<<"a">>, ExtTxt), FALSE, TextHi, "id", "ok")
BadPdf == File(Name(<<"b">>, <<"P","D","F">>), TRUE, << >>, "id", "ok")
BlankMd == File(Name(<<"c">>, ExtMd), FALSE, TextBlank, "id", "ok")
OddXyz == File(Name(<<"x">>, ExtXyz), FALSE, TextHi, "id", "ok")
NoIdDocx == File(Name(<<"d">>, ExtDocx), FALSE, TextHi, "null", "ok")
\* named "png": a name without a dot, which split('.').pop() gives back whole
AiFailsPng == File(ExtPng, FALSE, TextHi, "id", "throws")
TwinTxt == File(Name(<<"a">>, ExtTxt), FALSE, TextHi, "throws", "ok")
\* named "f.g.pdf": two dots
GoodPdf == File(Name(<<"f", Dot, "g">>, ExtPdf), FALSE, TextHi \o <<"\n">>, "id", "ok")

Files == {GoodTxt, BadPdf, BlankMd, OddXyz, NoIdDocx, AiFailsPng, TwinTxt, GoodPdf}

\* the arrays a file input or a drop can hand over
Selections == UNION {[1..n -> Files] : n \in 1..MaxSelect}

(***************************************************************************)
(* The status map.                                                         *)
(***************************************************************************)
Entry(st, msg) == [status |-> st, message |-> msg]

Pending == Entry("pending", "")

NamesOf(fs) == {fs[k].name : k \in 1..Len(fs)}

\* a write that leaves alone the entry of a file that has finished
PutUnlessFinished(prev, name, entry) ==
    IF name \in DOMAIN prev /\ prev[name].status \in {"completed", "error"}
    THEN prev
    ELSE [n \in DOMAIN prev \cup {name} |-> IF n = name THEN entry ELSE prev[n]]

\* {...prev, [name]: entry}
Put(prev, name, entry) ==
    [n \in DOMAIN prev \cup {name} |-> IF n = name THEN entry ELSE prev[n]]

\* {...prevProgress, ...newFilesWithStatus}
Merge(prev, names) ==
    [n \in DOMAIN prev \cup names |-> IF n \in names THEN Pending ELSE prev[n]]

\* a removal that leaves the status entry behind
DeleteKeepsEntry(prev, name) == prev

\* delete updatedProgress[name]
Delete(prev, name) == [n \in DOMAIN prev \ {name} |-> prev[n]]

\* fileProgress[name]?.status
StatusIn(progress, name) ==
    IF name \in DOMAIN progress THEN progress[name].status ELSE "undefined"

EmptyMap == [n \in {} |-> Pending]

(***************************************************************************)
(* The record of calls.                                                    *)
(***************************************************************************)
Ev(op, f, s, m) ==
    [op |-> op, f |-> f, s |-> s, m |-> m, id |-> 0, title |-> << >>, body |-> << >>]

\* createNote({title, content, status: "active", is_favorite: false, is_archived: false})
EvCreate(f, title, body) ==
    [op |-> "createNote", f |-> f, s |-> "active", m |-> "", id |-> 0,
     title |-> title, body |-> body, is_favorite |-> FALSE, is_archived |-> FALSE]

\* processNoteWithAI(noteData.id)
EvAi(f, id) ==
    [op |-> "processNoteWithAI", f |-> f, s |-> "", m |-> "", id |-> id,
     title |-> << >>, body |-> << >>]

\* the id the backend gives a created note: the ordinal of its createNote call
NewId(log) == Cardinality({k \in 1..Len(log) : log[k].op = "createNote"})

(***************************************************************************)
(* Messages.                                                               *)
(***************************************************************************)
MsgUnsupported == "Unsupported type"
MsgNoContent == "No content"
MsgNoWarn == "toast.warn is not a function"
MsgExtract == "extraction failed"
MsgExpired == "User session expired. Please log in again."
MsgCreate == "createNote failed"
MsgNoEntry == "Failed to create note entry in the database."
MsgAi == "processNoteWithAI failed"

(***************************************************************************)
(* Initial state: the page has just been mounted under the AuthProvider.   *)
(***************************************************************************)
PageInit ==
    /\ files = << >>
    /\ fileProgress = EmptyMap
    /\ isProcessing = FALSE
    /\ user \in BOOLEAN
    /\ authLoading = ~user
    /\ location = "import"
    /\ notices = {}
    /\ toastHasWarn \in BOOLEAN
    /\ pc = "idle"
    /\ i = 0
    /\ cFiles = << >>
    /\ cUser = FALSE
    /\ cProgress = EmptyMap
    /\ allSuccessful = TRUE
    /\ content = << >>
    /\ noteId = 0
    /\ calls = << >>

DispatchIdle ==
    /\ dName = << >>
    /\ dKind = "none"

\* the dashboard is not mounted
FavIdle ==
    /\ notesCache = << >>
    /\ favCache = [present |-> FALSE, data |-> << >>]
    /\ serverFav = << >>
    /\ staleNotes = FALSE
    /\ staleFav = FALSE
    /\ toggles = << >>

\* no PDF is being read
PdfIdle ==
    /\ pdfDoc = << >>
    /\ pageNum = 0
    /\ pdfText = << >>
    /\ pdfPages = << >>
    /\ pdfContent = << >>

NoUser == "null"

NoSession == [present |-> FALSE, user |-> NoUser]

\* the AuthProvider as the import page sees it: not followed step by step
AuthIdle ==
    /\ authUser = NoUser
    /\ session = NoSession
    /\ initialLoading = TRUE
    /\ isAuthenticating = FALSE
    /\ subscription = "unmounted"
    /\ notified = FALSE
    /\ inFlight = << >>
    /\ authStarted = 0
    /\ authRoute = "start"
    /\ authToasts = << >>

\* the dashboard's filters are not in use
FilterIdle ==
    /\ searchTerm = << >>
    /\ debouncedSearchTerm = << >>
    /\ activeFilterTagIds = << >>
    /\ debounceTimer = FALSE
    /\ allNotes = << >>
    /\ titleContentSearchedNotes = [present |-> FALSE, data |-> << >>]

Init == PageInit /\ DispatchIdle /\ FavIdle /\ PdfIdle /\ AuthIdle /\ FilterIdle

\* a part taken on its own: the import page is mounted with a user and does
\* nothing, and the other parts are idle
PageAlone == PageInit /\ user /\ toastHasWarn

DispatchAlone == PageAlone /\ FavIdle /\ PdfIdle /\ AuthIdle /\ FilterIdle

FavAlone == PageAlone /\ DispatchIdle /\ PdfIdle /\ AuthIdle /\ FilterIdle

PdfAlone == PageAlone /\ DispatchIdle /\ FavIdle /\ AuthIdle /\ FilterIdle

AuthAlone == PageAlone /\ DispatchIdle /\ FavIdle /\ PdfIdle /\ FilterIdle

FilterAlone == PageAlone /\ DispatchIdle /\ FavIdle /\ PdfIdle /\ AuthIdle

(***************************************************************************)
(* The page as rendered: the route is this page and the loader shown while *)
(* authLoading has been replaced by the form.                              *)
(***************************************************************************)
Rendered == location = "import" /\ ~authLoading

\* disabled={files.length === 0 || isProcessing || authLoading}
ImportDisabled == Len(files) = 0 \/ isProcessing \/ authLoading

chainVars == <<pc, i, cFiles, cUser, cProgress, allSuccessful, content, noteId, calls>>

\* handleImport is not running, or is suspended at an await on a reader,
\* parser, OCR, createNote or processNoteWithAI call: only then does the
\* event loop deliver another event.  Between two such awaits the chain
\* runs to completion ("loop", "dispatch" and "finish" are positions inside
\* one such run).
Suspended == pc \in {"idle", "extract", "create", "ai", "done"}

(***************************************************************************)
(* onAuthStateChange notification from the AuthProvider, followed by the   *)
(* page's effect on [user, authLoading]: a page without a user toasts      *)
(* "session expired" and navigates to /login.                              *)
(***************************************************************************)
AuthStateChange(hasSession) ==
    /\ location = "import"
    /\ Suspended
    /\ user' = hasSession
    /\ authLoading' = FALSE
    /\ IF (user' # user \/ authLoading' # authLoading) /\ ~authLoading' /\ ~user'
       THEN /\ notices' = notices \cup {"session-expired"}
            /\ location' = "/login"
       ELSE UNCHANGED <<notices, location>>
    /\ UNCHANGED <<files, fileProgress, isProcessing, toastHasWarn>>
    /\ UNCHANGED chainVars
    /\ UNCHANGED besideVars

(***************************************************************************)
(* handleFileSelect / handleDrop: append the files, give each name a       *)
(* 'pending' entry.  The input and the drop zone are inert while           *)
(* isProcessing.                                                           *)
(***************************************************************************)
\* a drop zone and a file input that stay live during a batch
DropZoneAlwaysLive == FALSE

\* onDrop={isProcessing ? undefined : handleDrop}, <input disabled={isProcessing}>
DropZoneDisabled == isProcessing

AddFiles(newFilesArray) ==
    /\ files' = files \o newFilesArray
    /\ fileProgress' = Merge(fileProgress, NamesOf(newFilesArray))

handleFileSelect(newFilesArray) ==
    /\ Rendered /\ ~DropZoneDisabled
    /\ Suspended
    /\ Len(files) + Len(newFilesArray) <= MaxFiles
    /\ AddFiles(newFilesArray)
    /\ UNCHANGED <<isProcessing, user, authLoading, location, notices, toastHasWarn>>
    /\ UNCHANGED chainVars
    /\ UNCHANGED besideVars

handleDrop(newFilesArray) ==
    /\ Rendered /\ ~DropZoneDisabled
    /\ Suspended
    /\ Len(files) + Len(newFilesArray) <= MaxFiles
    /\ AddFiles(newFilesArray)
    /\ UNCHANGED <<isProcessing, user, authLoading, location, notices, toastHasWarn>>
    /\ UNCHANGED chainVars
    /\ UNCHANGED besideVars

(***************************************************************************)
(* removeFile: the X button of a row, shown when !isProcessing and the     *)
(* row's status is not 'processing'.                                       *)
(***************************************************************************)
removeFile(fileNameToRemove) ==
    /\ Rendered /\ ~isProcessing
    /\ Suspended
    /\ fileNameToRemove \in NamesOf(files)
    /\ StatusIn(fileProgress, fileNameToRemove) # "processing"
    /\ files' = SelectSeq(files, LAMBDA f : f.name # fileNameToRemove)
    /\ fileProgress' = Delete(fileProgress, fileNameToRemove)
    /\ UNCHANGED <<isProcessing, user, authLoading, location, notices, toastHasWarn>>
    /\ UNCHANGED chainVars
    /\ UNCHANGED besideVars

(***************************************************************************)
(* handleImport, up to its first await: the start checks, then             *)
(* setIsProcessing(true) and the first turn of the loop.                   *)
(***************************************************************************)
\* if (files.length === 0)
NoFiles == Len(files) = 0

\* a handler without the check of the session
NotLoggedInUnchecked == FALSE

\* if (!user && !authLoading)
NotLoggedIn == ~user /\ ~authLoading

\* the handler itself, as called by whoever holds a reference to it
handleImportInvoked ==
    /\ Suspended
    /\ pc = "idle"
    /\ IF NoFiles
       THEN /\ notices' = notices \cup {"select-files"}
            /\ UNCHANGED <<isProcessing, location>>
            /\ UNCHANGED chainVars
       ELSE IF NotLoggedIn
       THEN /\ notices' = notices \cup {"not-logged-in"}
            /\ location' = "/login"
            /\ UNCHANGED isProcessing
            /\ UNCHANGED chainVars
       ELSE /\ isProcessing' = TRUE
            /\ allSuccessful' = TRUE
            /\ cFiles' = files
            /\ cUser' = user
            /\ cProgress' = fileProgress
            /\ i' = 1
            /\ pc' = "loop"
            /\ UNCHANGED <<notices, location, content, noteId, calls>>
    /\ UNCHANGED <<files, fileProgress, user, authLoading, toastHasWarn>>
    /\ UNCHANGED besideVars

\* the Import button is clicked: it is rendered with the page and is
\* disabled={files.length === 0 || isProcessing || authLoading}
handleImport ==
    /\ Rendered /\ ~ImportDisabled
    /\ handleImportInvoked

(***************************************************************************)
(* processSingleFile.  cFiles[i] is the file of the running call.          *)
(***************************************************************************)
\* setFileProgress(prev => ({...prev, [file.name]: {status, message}}))
SetProgress(name, st, msg) ==
    /\ fileProgress' = Put(fileProgress, name, Entry(st, msg))
    /\ calls' = calls \o <<Ev("status", i, st, msg)>>

\* a terminal status that is never written to the map
SetProgressAfterLost(evs, name, st, msg) ==
    /\ fileProgress' = fileProgress
    /\ calls' = calls \o evs \o <<Ev("status", i, st, msg)>>

\* the same, after further calls were issued in this step
SetProgressAfter(evs, name, st, msg) ==
    /\ fileProgress' = Put(fileProgress, name, Entry(st, msg))
    /\ calls' = calls \o evs \o <<Ev("status", i, st, msg)>>

\* a catch block that ends the loop at the first failing file
CatchBreaks == "finish"

\* a catch block that re-throws: handleImport, which has no try of its own,
\* rejects at the first failing file and never reaches the code after the loop
CatchRethrows == "aborted"

\* the catch block does not re-throw: processSingleFile returns and the
\* loop of handleImport goes on
CatchResume == "loop"

\* back in handleImport after `await processSingleFile(file)`:
\* if (fileProgress[file.name]?.status === 'error') allSuccessful = false
Returned(resume) ==
    /\ allSuccessful' =
          IF StatusIn(cProgress, cFiles[i].name) = "error" THEN FALSE ELSE allSuccessful
    /\ i' = i + 1
    /\ pc' = resume

\* catch (err): toast.error, status 'error' with err.message
Catch(evs, msg) ==
    /\ notices' = notices \cup {"failed-importing"}
    /\ SetProgressAfter(evs, cFiles[i].name, "error", msg)
    /\ Returned(CatchResume)

\* one turn of `for (const file of files)`: the re-check of `user`, then
\* the call of processSingleFile up to setFileProgress 'processing'
LoopTurn ==
    /\ pc = "loop"
    /\ IF i > Len(cFiles)
       THEN /\ pc' = "finish"
            /\ UNCHANGED <<fileProgress, notices, allSuccessful, calls>>
       ELSE IF ~cUser
       THEN /\ notices' = notices \cup {"session-expired-during-import"}
            /\ allSuccessful' = FALSE
            /\ pc' = "finish"
            /\ UNCHANGED <<fileProgress, calls>>
       ELSE /\ SetProgress(cFiles[i].name, "processing", "")
            /\ pc' = "dispatch"
            /\ UNCHANGED <<notices, allSuccessful>>
    /\ UNCHANGED <<files, isProcessing, user, authLoading, location, toastHasWarn,
                   i, cFiles, cUser, cProgress, content, noteId>>
    /\ UNCHANGED besideVars

\* the text the branch of `kind` assigns to `content`
Extracted(kind, text) == IF kind = "pdf" THEN Trim(text) ELSE text

\* an emptiness check that forgets to trim
NoContentUntrimmed(text) == text = << >>

\* if (!content.trim())
NoContent(text) == Trim(text) = << >>

\* For every file that can be queued: the branch its extension selects, the
\* content that branch assigns, whether the content counts as empty, and the
\* title.  Tabulated, so that each is computed once per file.
KindOf == [f \in Files |-> Extractor(Extension(f.name))]

ContentOf == [f \in Files |-> Extracted(KindOf[f], f.text)]

NoContentOf == [f \in Files |-> NoContent(ContentOf[f])]

TitleOf == [f \in Files |-> Title(f.name)]

\* the if / else-if chain on the extension: a supported file's reader,
\* parser or OCR call is issued; an unsupported one is skipped
Dispatch ==
    /\ pc = "dispatch"
    /\ LET kind == KindOf[cFiles[i]]
       IN  IF kind = "unsupported"
           THEN IF toastHasWarn
                THEN /\ notices' = notices \cup {"unsupported-skipped"}
                     /\ SetProgress(cFiles[i].name, "error", MsgUnsupported)
                     /\ Returned("loop")
                ELSE Catch(<< >>, MsgNoWarn)
           ELSE /\ calls' = calls \o <<Ev("extract", i, kind, "")>>
                /\ pc' = "extract"
                /\ UNCHANGED <<fileProgress, notices, allSuccessful, i>>
    /\ UNCHANGED <<files, isProcessing, user, authLoading, location, toastHasWarn,
                   cFiles, cUser, cProgress, content, noteId>>
    /\ UNCHANGED besideVars

\* the extractor's promise settles; then the empty-content check, the
\* check of `user`, and the call of createNote
ExtractSettles ==
    /\ pc = "extract"
    /\ LET f == cFiles[i]
           text == ContentOf[f]
       IN  IF f.xThrows
           THEN /\ Catch(<< >>, MsgExtract)
                /\ UNCHANGED content
           ELSE /\ content' = text
                /\ IF NoContentOf[f]
                   THEN IF toastHasWarn
                        THEN /\ notices' = notices \cup {"no-content-skipped"}
                             /\ SetProgress(f.name, "completed", MsgNoContent)
                             /\ Returned("loop")
                        ELSE Catch(<< >>, MsgNoWarn)
                   ELSE IF ~cUser
                   THEN Catch(<< >>, MsgExpired)
                   ELSE /\ calls' = calls \o <<EvCreate(i, TitleOf[f], text)>>
                        /\ pc' = "create"
                        /\ UNCHANGED <<fileProgress, notices, allSuccessful, i>>
    /\ UNCHANGED <<files, isProcessing, user, authLoading, location, toastHasWarn,
                   cFiles, cUser, cProgress, noteId>>
    /\ UNCHANGED besideVars

\* a test that takes whatever createNote resolved with for a created note
HasIdAlways(result) == TRUE

\* if (noteData && noteData.id)
HasId(result) == result = "id"

\* createNote settles: with an id processNoteWithAI is called, without one
\* an Error is thrown
CreateSettles ==
    /\ pc = "create"
    /\ LET f == cFiles[i]
       IN  IF f.create = "throws"
           THEN /\ Catch(<< >>, MsgCreate)
                /\ UNCHANGED noteId
           ELSE IF HasId(f.create)
           THEN /\ noteId' = NewId(calls)
                /\ calls' = calls \o <<EvAi(i, noteId')>>
                /\ pc' = "ai"
                /\ UNCHANGED <<fileProgress, notices, allSuccessful, i>>
           ELSE /\ Catch(<< >>, MsgNoEntry)
                /\ UNCHANGED noteId
    /\ UNCHANGED <<files, isProcessing, user, authLoading, location, toastHasWarn,
                   cFiles, cUser, cProgress, content>>
    /\ UNCHANGED besideVars

\* the tags-update callback registered with the AI service, which the
\* service may call while it enriches a note
TagsUpdated(called) ==
    IF called THEN <<Ev("invalidate", i, "tags", "")>> ELSE << >>

\* processNoteWithAI settles
AiSettles(called) ==
    /\ pc = "ai"
    /\ LET f == cFiles[i]
       IN  IF f.ai = "throws"
           THEN Catch(TagsUpdated(called), MsgAi)
           ELSE /\ SetProgressAfter(TagsUpdated(called), f.name, "completed", "")
                /\ notices' = notices \cup {"imported"}
                /\ Returned("loop")
    /\ UNCHANGED <<files, isProcessing, user, authLoading, location, toastHasWarn,
                   cFiles, cUser, cProgress, content, noteId>>
    /\ UNCHANGED besideVars

(***************************************************************************)
(* handleImport after the loop.                                            *)
(***************************************************************************)
\* the summary toast
Summary(ok, n) ==
    IF ok /\ n > 0 THEN <<"all-processed">>
    ELSE IF n > 0 THEN <<"finished-check-errors">>
    ELSE << >>

\* navigate("/app") with a user, navigate("/") without
Destination(authed) == IF authed THEN "/app" ELSE "/"

\* the caches invalidated only after the page was left and the state cleared,
\* and 'notes' forgotten
FinishCallsLate(ok, n, authed) ==
    <<Ev("setIsProcessing", 0, "false", "")>>
    \o [k \in 1..Len(Summary(ok, n)) |-> Ev("toast", 0, Summary(ok, n)[k], "")]
    \o <<Ev("navigate", 0, Destination(authed), ""),
         Ev("setFiles", 0, "[]", ""),
         Ev("setFileProgress", 0, "{}", ""),
         Ev("invalidate", 0, "tags", "")>>

\* the calls after the loop, in order
FinishCalls(ok, n, authed) ==
    <<Ev("setIsProcessing", 0, "false", ""),
      Ev("invalidate", 0, "tags", ""),
      Ev("invalidate", 0, "notes", "")>>
    \o [k \in 1..Len(Summary(ok, n)) |-> Ev("toast", 0, Summary(ok, n)[k], "")]
    \o <<Ev("navigate", 0, Destination(authed), ""),
         Ev("setFiles", 0, "[]", ""),
         Ev("setFileProgress", 0, "{}", "")>>

Finish ==
    /\ pc = "finish"
    /\ isProcessing' = FALSE
    /\ calls' = calls \o FinishCalls(allSuccessful, Len(cFiles), cUser)
    /\ notices' = notices \cup {Summary(allSuccessful, Len(cFiles))[k] :
                                    k \in 1..Len(Summary(allSuccessful, Len(cFiles)))}
    /\ location' = Destination(cUser)
    /\ files' = << >>
    /\ fileProgress' = EmptyMap
    /\ pc' = "done"
    /\ UNCHANGED <<user, authLoading, toastHasWarn, i, cFiles, cUser, cProgress,
                   allSuccessful, content, noteId>>
    /\ UNCHANGED besideVars

(***************************************************************************)
(* The page.                                                               *)
(***************************************************************************)
Next ==
    \/ \E hasSession \in BOOLEAN : AuthStateChange(hasSession)
    \/ \E newFilesArray \in Selections : handleFileSelect(newFilesArray)
    \/ \E newFilesArray \in Selections : handleDrop(newFilesArray)
    \/ \E fileNameToRemove \in NamesOf(files) : removeFile(fileNameToRemove)
    \/ handleImport
    \/ LoopTurn
    \/ Dispatch
    \/ ExtractSettles
    \/ CreateSettles
    \/ \E called \in BOOLEAN : AiSettles(called)
    \/ Finish

Spec == Init /\ [][Next]_vars

\* the steps of a started handleImport; pc enables at most one of them
Continues ==
    \/ LoopTurn
    \/ Dispatch
    \/ ExtractSettles
    \/ CreateSettles
    \/ \E called \in BOOLEAN : AiSettles(called)
    \/ Finish

\* Every reader, parser, OCR, createNote and processNoteWithAI call settles,
\* and the event loop runs the continuation of a settled promise: a step of
\* the chain that can be taken is taken.
Settling == WF_vars(Continues)

SpecSettling == Init /\ [][Next]_vars /\ Settling

\* The page with handleImport also called directly, whatever the button's
\* state: the start checks of the handler are then the only guard.
DirectNext ==
    \/ Next
    \/ handleImportInvoked

SpecDirect == Init /\ [][DirectNext]_vars

(***************************************************************************)
(* The extension dispatch on its own: a file name is drawn, and the        *)
(* dispatch of processSingleFile is applied to it.                         *)
(***************************************************************************)
Cased(s, mode) ==
    [k \in 1..Len(s) |->
        IF mode = "upper" \/ (mode = "capital" /\ k = 1) THEN Upper(s[k]) ELSE s[k]]

TestExtensions == AdvertisedExtensions \cup {ExtXyz, << >>}

TestBases == {<<"a">>, <<"a", Dot, "b">>, << >>}

TestNames ==
    {Name(b, Cased(e, mode)) :
        b \in TestBases, e \in TestExtensions, mode \in {"lower", "upper", "capital"}}
    \cup {Cased(e, mode) : e \in TestExtensions, mode \in {"lower", "upper"}}

DispatchInit ==
    /\ DispatchAlone
    /\ dName \in TestNames
    /\ dKind = "none"

Classify ==
    /\ dKind = "none"
    /\ dKind' = Extractor(Extension(dName))
    /\ UNCHANGED dName
    /\ UNCHANGED besideDispatchVars

DispatchNext == Classify

SpecDispatch == DispatchInit /\ [][DispatchNext]_vars

(***************************************************************************)
(* The dashboard's favourite toggle (Dashboard.tsx, handleToggleFavorite)  *)
(* over the two query caches it writes.  A note is its id and its          *)
(* is_favorite flag; a cache is an array of notes.                         *)
(***************************************************************************)
NoteIds == 1..MaxNotes

Note(n, fav) == [id |-> n, is_favorite |-> fav]

\* getNotes(): every note of the user, with the backend's flags
ServerNotes(flags) == [n \in NoteIds |-> Note(n, flags[n])]

\* getFavoriteNotes(): the notes whose flag is set, in the same order
ServerFavorites(flags) == SelectSeq(ServerNotes(flags), LAMBDA n : n.is_favorite)

\* oldNotes.map(note => note.id === noteId ? {...note, is_favorite: value} : note)
SetFlag(notes, nid, value) ==
    [k \in 1..Len(notes) |->
        IF notes[k].id = nid THEN [notes[k] EXCEPT !.is_favorite = value] ELSE notes[k]]

\* oldFavNotes.filter(note => note.id !== noteId)
RemoveNote(favs, nid) == SelectSeq(favs, LAMBDA n : n.id # nid)

\* noteToAdd = getQueryData(['notes'])?.find(note => note.id === noteId);
\* noteToAdd ? [...oldFavNotes, {...noteToAdd, is_favorite: true}] : oldFavNotes
AddNote(favs, notes, nid) ==
    IF \E k \in 1..Len(notes) : notes[k].id = nid
    THEN LET k == CHOOSE k \in 1..Len(notes) :
                      notes[k].id = nid /\ \A m \in 1..(k-1) : notes[m].id # nid
         IN  Append(favs, [notes[k] EXCEPT !.is_favorite = TRUE])
    ELSE favs

\* the updater of ['favorite-notes'] of the optimistic update (lines 191-200);
\* `notes` is ['notes'] as the first updater left it
OptimisticFavorites(fav, notes, nid, currentIsFavorite) ==
    IF ~fav.present THEN fav
    ELSE [fav EXCEPT !.data = IF currentIsFavorite
                              THEN RemoveNote(@, nid)
                              ELSE AddNote(@, notes, nid)]

\* a failure branch that leaves ['notes'] as the optimistic update made it
RollbackMissing(notes, nid, currentIsFavorite) == notes

\* the updater of ['notes'] of the rollback (lines 212-216)
Rollback(notes, nid, currentIsFavorite) == SetFlag(notes, nid, currentIsFavorite)

\* the updater of ['favorite-notes'] of the rollback (lines 217-225)
RollbackFavorites(fav, notes, nid, currentIsFavorite) ==
    IF ~fav.present THEN fav
    ELSE [fav EXCEPT !.data = IF currentIsFavorite
                              THEN AddNote(@, notes, nid)
                              ELSE RemoveNote(@, nid)]

\* the dashboard is mounted and ['notes'] is loaded; the favourites tab may
\* or may not have been opened
FavInit ==
    /\ FavAlone
    /\ serverFav \in [NoteIds -> BOOLEAN]
    /\ notesCache = ServerNotes(serverFav)
    /\ favCache \in {[present |-> FALSE, data |-> << >>],
                     [present |-> TRUE, data |-> ServerFavorites(serverFav)]}
    /\ staleNotes = FALSE
    /\ staleFav = FALSE
    /\ toggles = << >>

\* handleToggleFavorite up to `await apiToggleFavorite(...)`
handleToggleFavorite(nid, currentIsFavorite) ==
    /\ Len(toggles) < MaxToggles
    /\ notesCache' = SetFlag(notesCache, nid, ~currentIsFavorite)
    /\ favCache' = OptimisticFavorites(favCache, notesCache', nid, currentIsFavorite)
    /\ toggles' = Append(toggles,
                         [noteId |-> nid, currentIsFavorite |-> currentIsFavorite,
                          result |-> "pending",
                          notesBefore |-> notesCache, favBefore |-> favCache,
                          notesAfter |-> notesCache', favAfter |-> favCache'])
    /\ UNCHANGED <<serverFav, staleNotes, staleFav>>
    /\ UNCHANGED besideFavVars

\* the star of a displayed note is clicked: NoteViewer.handleFavoriteToggle
\* calls onToggleFavorite(id, isFavorite) with the flag it displays
handleFavoriteToggle(k) ==
    handleToggleFavorite(notesCache[k].id, notesCache[k].is_favorite)

\* apiToggleFavorite settles with `success`: invalidation of both queries
\* and a success toast, or the rollback and an error toast
ToggleSettles(t, success) ==
    /\ toggles[t].result = "pending"
    /\ LET nid == toggles[t].noteId
           currentIsFavorite == toggles[t].currentIsFavorite
       IN  IF success
           THEN /\ serverFav' = [serverFav EXCEPT ![nid] = ~currentIsFavorite]
                /\ staleNotes' = TRUE
                /\ staleFav' = TRUE
                /\ toggles' = [toggles EXCEPT ![t].result = "ok"]
                /\ UNCHANGED <<notesCache, favCache>>
           ELSE /\ notesCache' = Rollback(notesCache, nid, currentIsFavorite)
                /\ favCache' = RollbackFavorites(favCache, notesCache', nid, currentIsFavorite)
                /\ toggles' = [toggles EXCEPT ![t].result = "failed"]
                /\ UNCHANGED <<serverFav, staleNotes, staleFav>>
    /\ UNCHANGED besideFavVars

\* the invalidated query ['notes'] is refetched
RefetchNotes ==
    /\ staleNotes
    /\ notesCache' = ServerNotes(serverFav)
    /\ staleNotes' = FALSE
    /\ UNCHANGED <<favCache, serverFav, staleFav, toggles>>
    /\ UNCHANGED besideFavVars

\* ['favorite-notes'] is fetched: the favourites tab is opened for the first
\* time, or the invalidated query is refetched
FetchFavorites ==
    /\ ~favCache.present \/ staleFav
    /\ favCache' = [present |-> TRUE, data |-> ServerFavorites(serverFav)]
    /\ staleFav' = FALSE
    /\ UNCHANGED <<notesCache, serverFav, staleNotes, toggles>>
    /\ UNCHANGED besideFavVars

FavNext ==
    \/ \E k \in 1..Len(notesCache) : handleFavoriteToggle(k)
    \/ \E t \in 1..Len(toggles) : \E success \in BOOLEAN : ToggleSettles(t, success)
    \/ RefetchNotes
    \/ FetchFavorites

SpecFavorites == FavInit /\ [][FavNext]_vars

(***************************************************************************)
(* The pdf branch of processSingleFile on its own (lines 129-139): a       *)
(* document is drawn, its pages are fetched one by one, and the text is    *)
(* put together.                                                           *)
(***************************************************************************)
Space == " "
Newline == "\n"

\* the `str` of a text item
ItemStrs == {<<"a">>, <<"b">>, <<Space>>}

PdfPageSet == UNION {[1..n -> ItemStrs] : n \in 0..MaxItems}

PdfDocs == UNION {[1..n -> PdfPageSet] : n \in 0..MaxPages}

\* Array.prototype.join(sep) on an array of strings
RECURSIVE Join(_, _)
Join(strs, sep) ==
    IF strs = << >> THEN << >>
    ELSE IF Len(strs) = 1 THEN strs[1]
    ELSE strs[1] \o sep \o Join(Tail(strs), sep)

\* a page's text added without the line break
PageLineNoBreak(items) == Join(items, <<Space>>)

\* contentObj.items.map(item => item.str).join(" ") + "\n"
PageLine(items) == Join(items, <<Space>>) \o <<Newline>>

PdfInit ==
    /\ PdfAlone
    /\ pdfDoc \in PdfDocs
    /\ pageNum = 0
    /\ pdfText = << >>
    /\ pdfPages = << >>
    /\ pdfContent = << >>

\* getDocument(...).promise resolves; let text = ""; pageNum = 1
OpenPdf ==
    /\ pageNum = 0
    /\ pageNum' = 1
    /\ pdfText' = << >>
    /\ UNCHANGED <<pdfDoc, pdfPages, pdfContent>>
    /\ UNCHANGED besidePdfVars

\* one turn of the loop: getPage(pageNum), getTextContent(), text += ...
ReadPage ==
    /\ pageNum >= 1
    /\ pageNum <= Len(pdfDoc)
    /\ pdfPages' = Append(pdfPages, pageNum)
    /\ pdfText' = pdfText \o PageLine(pdfDoc[pageNum])
    /\ pageNum' = pageNum + 1
    /\ UNCHANGED <<pdfDoc, pdfContent>>
    /\ UNCHANGED besidePdfVars

\* content = text.trim(); pdfContent holds the assigned string as its only
\* element
TrimText ==
    /\ pageNum = Len(pdfDoc) + 1
    /\ pdfContent = << >>
    /\ pdfContent' = <<Trim(pdfText)>>
    /\ UNCHANGED <<pdfDoc, pageNum, pdfText, pdfPages>>
    /\ UNCHANGED besidePdfVars

PdfNext ==
    \/ OpenPdf
    \/ ReadPage
    \/ TrimText

SpecPdf == PdfInit /\ [][PdfNext]_vars

(***************************************************************************)
(* The AuthProvider on its own (AuthContext.tsx): the mount effect that    *)
(* subscribes to the auth state, the notifications, and the four           *)
(* operations, each of which awaits the backend once.                      *)
(***************************************************************************)
AuthUsers == {"u1", "u2"}

Sessions == {[present |-> TRUE, user |-> u] : u \in AuthUsers}

\* a callback that leaves the user unset
UserOfNobody(currentSession) == NoUser

\* currentSession?.user ?? null
UserOf(currentSession) ==
    IF currentSession.present THEN currentSession.user ELSE NoUser

\* const isAuthenticated = !!user && !!session
isAuthenticated == authUser # NoUser /\ session # NoSession

\* what onAuthStateChange can hand back: a subscription, an error, both, or
\* neither
SubscriptionOutcomes == {"established", "error", "error-established", "none"}

Subscribed == subscription \in {"established", "error-established"}

SubscriptionFailed == subscription \in {"error", "error-established", "none"}

AuthProviderInit ==
    /\ AuthAlone
    /\ AuthIdle

\* the effect of lines 28-55, run once after the first render
MountEffect(outcome) ==
    /\ subscription = "unmounted"
    /\ subscription' = outcome
    /\ IF outcome \in {"error", "error-established"}
       THEN /\ authToasts' = Append(authToasts, "error")
            /\ initialLoading' = FALSE
       ELSE IF outcome = "none"
       THEN /\ initialLoading' = FALSE
            /\ UNCHANGED authToasts
       ELSE UNCHANGED <<initialLoading, authToasts>>
    /\ UNCHANGED <<authUser, session, isAuthenticating, notified, inFlight,
                   authStarted, authRoute>>
    /\ UNCHANGED besideAuthVars

\* the callback of lines 32-36
onAuthStateChange(currentSession) ==
    /\ Subscribed
    /\ session' = currentSession
    /\ authUser' = UserOf(currentSession)
    /\ initialLoading' = FALSE
    /\ notified' = TRUE
    /\ UNCHANGED <<isAuthenticating, subscription, inFlight, authStarted,
                   authRoute, authToasts>>
    /\ UNCHANGED besideAuthVars

\* signIn, signUp, signOut, resetPassword up to their await:
\* setIsAuthenticating(true) and the backend call
Begins(op) ==
    /\ subscription # "unmounted"
    /\ authStarted < MaxAuthOps
    /\ authStarted' = authStarted + 1
    /\ isAuthenticating' = TRUE
    /\ inFlight' = Append(inFlight, op)
    /\ UNCHANGED <<authUser, session, initialLoading, subscription, notified,
                   authRoute, authToasts>>
    /\ UNCHANGED besideAuthVars

signIn == Begins("signIn")

signUp == Begins("signUp")

signOut == Begins("signOut")

resetPassword == Begins("resetPassword")

Dropped(seq, k) == [m \in 1..(Len(seq) - 1) |-> IF m < k THEN seq[m] ELSE seq[m + 1]]

\* the rest of an operation: the toast and the navigation of its outcome,
\* then the finally block
Returns(k, toastKind, route) ==
    /\ authToasts' = Append(authToasts, toastKind)
    /\ authRoute' = route
    /\ isAuthenticating' = FALSE
    /\ inFlight' = Dropped(inFlight, k)
    /\ UNCHANGED <<authUser, session, initialLoading, subscription, notified,
                   authStarted>>
    /\ UNCHANGED besideAuthVars

\* lines 60-85
signInSettles(k, outcome) ==
    /\ k \in 1..Len(inFlight)
    /\ inFlight[k] = "signIn"
    /\ CASE outcome = "error" -> Returns(k, "error", authRoute)
         [] outcome = "session" -> Returns(k, "success", "/app")
         [] outcome = "no-session" -> Returns(k, "success", "/app")
         [] outcome = "throws" -> Returns(k, "error", authRoute)

\* lines 91-126
signUpSettles(k, outcome) ==
    /\ k \in 1..Len(inFlight)
    /\ inFlight[k] = "signUp"
    /\ CASE outcome = "error" -> Returns(k, "error", authRoute)
         [] outcome = "session" -> Returns(k, "success", "/app")
         [] outcome = "user" -> Returns(k, "success", "/login")
         [] outcome = "neither" -> Returns(k, "info", "/login")
         [] outcome = "throws" -> Returns(k, "error", authRoute)

\* lines 132-145
signOutSettles(k, outcome) ==
    /\ k \in 1..Len(inFlight)
    /\ inFlight[k] = "signOut"
    /\ CASE outcome = "error" -> Returns(k, "error", authRoute)
         [] outcome = "ok" -> Returns(k, "success", "/")
         [] outcome = "throws" -> Returns(k, "error", authRoute)

\* lines 152-168
resetPasswordSettles(k, outcome) ==
    /\ k \in 1..Len(inFlight)
    /\ inFlight[k] = "resetPassword"
    /\ CASE outcome = "error" -> Returns(k, "error", authRoute)
         [] outcome = "ok" -> Returns(k, "success", authRoute)
         [] outcome = "throws" -> Returns(k, "error", authRoute)

AuthNext ==
    \/ \E outcome \in SubscriptionOutcomes : MountEffect(outcome)
    \/ \E currentSession \in Sessions \cup {NoSession} : onAuthStateChange(currentSession)
    \/ signIn
    \/ signUp
    \/ signOut
    \/ resetPassword
    \/ \E k \in 1..MaxAuthOps :
          \E outcome \in {"error", "session", "no-session", "throws"} :
             signInSettles(k, outcome)
    \/ \E k \in 1..MaxAuthOps :
          \E outcome \in {"error", "session", "user", "neither", "throws"} :
             signUpSettles(k, outcome)
    \/ \E k \in 1..MaxAuthOps :
          \E outcome \in {"error", "ok", "throws"} : signOutSettles(k, outcome)
    \/ \E k \in 1..MaxAuthOps :
          \E outcome \in {"error", "ok", "throws"} : resetPasswordSettles(k, outcome)

SpecAuth == AuthProviderInit /\ [][AuthNext]_vars

(***************************************************************************)
(* The dashboard's search and tag filters on their own (Dashboard.tsx):    *)
(* the search box with its debounce effect, the tag buttons, and the list  *)
(* computed by displayedNotes, on the tab 'all' the dashboard opens with.  *)
(***************************************************************************)
\* String.prototype.includes
Includes(s, t) ==
    \E k \in 0..(Len(s) - Len(t)) : SubSeq(s, k + 1, k + Len(t)) = t

TagT == [id |-> <<"t">>, name |-> <<"a">>]

TagU == [id |-> <<"u">>, name |-> <<"b">>]

TagIds == {TagT.id, TagU.id}

\* an element of note.tags: a bare string, or a tag object
AsString(str) == [kind |-> "string", str |-> str, id |-> << >>, name |-> << >>]

AsObject(tag) == [kind |-> "object", str |-> << >>, id |-> tag.id, name |-> tag.name]

\* notes without content, summary or keywords
FilterNotes ==
    { [title |-> <<"a">>, tags |-> << >>],
      [title |-> <<"a">>, tags |-> <<AsString(TagT.id)>>],
      [title |-> <<"b">>, tags |-> <<AsObject(TagU)>>],
      [title |-> <<"B">>, tags |-> <<AsObject(TagT), AsString(TagU.id)>>] }

FilterNoteLists == UNION {[1..n -> FilterNotes] : n \in 0..MaxNotes}

\* what can stand in the search box
SearchTerms == {<< >>, <<Space>>, <<"a">>, <<"b">>}

FilterInit ==
    /\ FilterAlone
    /\ searchTerm = << >>
    /\ debouncedSearchTerm = << >>
    /\ activeFilterTagIds = << >>
    /\ debounceTimer = TRUE
    /\ allNotes \in FilterNoteLists
    /\ titleContentSearchedNotes = [present |-> FALSE, data |-> << >>]

\* onChange={(e) => setSearchTerm(e.target.value)}, and the effect of lines
\* 86-94 that the new searchTerm runs again: the pending timer is cleared
\* and a new one is set
onSearchChange(value) ==
    /\ value # searchTerm
    /\ searchTerm' = value
    /\ debounceTimer' = TRUE
    /\ UNCHANGED <<debouncedSearchTerm, activeFilterTagIds, allNotes,
                   titleContentSearchedNotes>>
    /\ UNCHANGED besideFilterVars

\* the timer's callback, lines 88-91
DebounceFires ==
    /\ debounceTimer
    /\ debounceTimer' = FALSE
    /\ debouncedSearchTerm' = searchTerm
    /\ activeFilterTagIds' = IF Trim(searchTerm) # << >> THEN << >>
                              ELSE activeFilterTagIds
    /\ UNCHANGED <<searchTerm, allNotes, titleContentSearchedNotes>>
    /\ UNCHANGED besideFilterVars

\* prevIds.includes(tagId) ? prevIds.filter(id => id !== tagId) : [...prevIds, tagId]
Toggled(prevIds, tagId) ==
    IF \E k \in 1..Len(prevIds) : prevIds[k] = tagId
    THEN SelectSeq(prevIds, LAMBDA id : id # tagId)
    ELSE Append(prevIds, tagId)

handleTagFilterClick(tagId) ==
    /\ searchTerm' = << >>
    /\ debouncedSearchTerm' = << >>
    /\ activeFilterTagIds' = Toggled(activeFilterTagIds, tagId)
    /\ debounceTimer' = (debounceTimer \/ searchTerm # << >>)
    /\ UNCHANGED <<allNotes, titleContentSearchedNotes>>
    /\ UNCHANGED besideFilterVars

clearTagFilters ==
    /\ activeFilterTagIds # << >>
    /\ activeFilterTagIds' = << >>
    /\ UNCHANGED <<searchTerm, debouncedSearchTerm, debounceTimer, allNotes,
                   titleContentSearchedNotes>>
    /\ UNCHANGED besideFilterVars

\* the notes the backend finds for a term
ApiSearchNotes(notes, term) ==
    SelectSeq(notes, LAMBDA note : Includes(ToLowerCase(note.title), ToLowerCase(term)))

\* the search query, enabled by !!debouncedSearchTerm, settles
SearchQuerySettles ==
    /\ debouncedSearchTerm # << >>
    /\ titleContentSearchedNotes' =
          [present |-> TRUE, data |-> ApiSearchNotes(allNotes, debouncedSearchTerm)]
    /\ UNCHANGED <<searchTerm, debouncedSearchTerm, activeFilterTagIds,
                   debounceTimer, allNotes>>
    /\ UNCHANGED besideFilterVars

\* lines 303-331, for notes without content, summary and keywords
ClientMatch(note, searchTermLower) ==
    \/ Includes(ToLowerCase(note.title), searchTermLower)
    \/ \E k \in 1..Len(note.tags) :
          IF note.tags[k].kind = "string"
          THEN Includes(ToLowerCase(note.tags[k].str), searchTermLower)
          ELSE Includes(ToLowerCase(note.tags[k].name), searchTermLower)

\* lines 341-347
HasActiveTag(note, filterTagIds) ==
    \E f \in 1..Len(filterTagIds) :
       \E k \in 1..Len(note.tags) :
          \/ note.tags[k].kind = "string" /\ note.tags[k].str = filterTagIds[f]
          \/ note.tags[k].kind = "object" /\ note.tags[k].id = filterTagIds[f]

\* lines 282-349, before the notes are turned into cards
displayedNotes ==
    LET searched ==
            IF Trim(debouncedSearchTerm) # << >>
            THEN IF titleContentSearchedNotes.present
                 THEN titleContentSearchedNotes.data
                 ELSE SelectSeq(allNotes,
                         LAMBDA note : ClientMatch(note, ToLowerCase(debouncedSearchTerm)))
            ELSE allNotes
    IN  IF Len(activeFilterTagIds) > 0 /\ debouncedSearchTerm = << >>
        THEN SelectSeq(searched, LAMBDA note : HasActiveTag(note, activeFilterTagIds))
        ELSE searched

FilterNext ==
    \/ \E value \in SearchTerms : onSearchChange(value)
    \/ DebounceFires
    \/ \E tagId \in TagIds : handleTagFilterClick(tagId)
    \/ clearTagFilters
    \/ SearchQuerySettles

SpecFilter == FilterInit /\ [][FilterNext]_vars

(***************************************************************************)
(* Reading the record of calls.                                            *)
(***************************************************************************)
Terminal == {"completed", "error"}

\* the positions in the record of the calls made for the file at queue position j
CallsFor(j) == {k \in 1..Len(calls) : calls[k].f = j}

StatusWrites(j) == {k \in CallsFor(j) : calls[k].op = "status"}

\* the file at position j has been through processSingleFile
HasReturned(j) == j \in 1..Len(cFiles) /\ j < i

\* the last status written for the file at position j
LastStatus(j) ==
    LET k == CHOOSE k \in StatusWrites(j) : \A m \in StatusWrites(j) : m <= k
    IN  calls[k]

\* what one file comes to on its own: its type, its extraction, createNote
\* and processNoteWithAI decide it, no other file does
OwnOutcome(f) ==
    LET kind == Extractor(Extension(f.name))
    IN  IF kind = "unsupported" THEN "error"
        ELSE IF f.xThrows THEN "error"
        ELSE IF Trim(f.text) = << >>
             THEN (IF toastHasWarn THEN "completed" ELSE "error")
        ELSE IF f.create # "id" THEN "error"
        ELSE IF f.ai # "ok" THEN "error"
        ELSE "completed"

\* processing of the file throws during extraction, note creation or enrichment
Throws(f) ==
    /\ Extractor(Extension(f.name)) # "unsupported"
    /\ \/ f.xThrows
       \/ Trim(f.text) # << >> /\ (f.create # "id" \/ f.ai # "ok")

(***************************************************************************)
(* C1: failure isolation.  While the session stays valid, a batch that has *)
(* left its loop has taken every queued file through processSingleFile;    *)
(* a file whose processing threw has 'error' as its last status, and every *)
(* file that was processed has, as its last status, the outcome its own    *)
(* type, extraction, createNote and processNoteWithAI give it, whatever    *)
(* the other files of the batch did.  When a file returns, the map holds   *)
(* that outcome under its name.                                            *)
(***************************************************************************)
C1_FailureIsolation ==
    user =>
        /\ pc \in {"finish", "done"} => i = Len(cFiles) + 1
        /\ \A j \in 1..Len(cFiles) :
              HasReturned(j) =>
                 /\ StatusWrites(j) # {}
                 /\ LastStatus(j).s = OwnOutcome(cFiles[j])
                 /\ Throws(cFiles[j]) => LastStatus(j).s = "error"
        /\ (pc = "loop" /\ i > 1) =>
              StatusIn(fileProgress, cFiles[i-1].name) = OwnOutcome(cFiles[i-1])

\* a batch of two has ended: the first file threw while its PDF was parsed,
\* the second was still processed and completed
C1_Witness ==
    /\ user
    /\ pc = "done"
    /\ Len(cFiles) = 2
    /\ Throws(cFiles[1])
    /\ LastStatus(1).s = "error"
    /\ LastStatus(2).s = "completed"

(***************************************************************************)
(* C2: strictly sequential processing.  At most one entry of the status    *)
(* map is 'processing'; the calls made for the files appear in the record  *)
(* file by file in queue order; the k-th 'processing' mark is that of      *)
(* file k; the first call for a file is its 'processing' mark, and once a  *)
(* later file has a call, the last call for the earlier file is its        *)
(* terminal status.                                                        *)
(***************************************************************************)
ProcessingNow == {n \in DOMAIN fileProgress : fileProgress[n].status = "processing"}

\* the positions of the per-file calls (tags invalidated by the AI service's
\* callback belong to the file being enriched)
FileCalls == {k \in 1..Len(calls) : calls[k].f > 0}

C2_Sequential ==
    /\ Cardinality(ProcessingNow) <= 1
    /\ \A p, q \in FileCalls : p < q => calls[p].f <= calls[q].f
    /\ \A j \in 1..Len(cFiles) :
          CallsFor(j) # {} =>
             LET first == CHOOSE k \in CallsFor(j) : \A m \in CallsFor(j) : k <= m
                 last == CHOOSE k \in CallsFor(j) : \A m \in CallsFor(j) : m <= k
             IN  /\ calls[first].op = "status" /\ calls[first].s = "processing"
                 /\ \A m \in 1..(j-1) : CallsFor(m) # {}
                 /\ CallsFor(j+1) # {} =>
                       calls[last].op = "status" /\ calls[last].s \in Terminal

\* the second file of a batch is being processed, the first is done
C2_Witness ==
    /\ pc = "create"
    /\ i = 2
    /\ ProcessingNow = {cFiles[2].name}
    /\ cFiles[1].name # cFiles[2].name
    /\ LastStatus(1).s \in Terminal

(***************************************************************************)
(* C3: session loss stops the pipeline.  Stated as the claim has it: when  *)
(* the loop of a running batch takes its next turn and the session is      *)
(* absent, the turn ends the loop: the next file is not marked             *)
(* 'processing', nothing is called for it, and the status map stays as it  *)
(* is.                                                                     *)
(***************************************************************************)
ChainStep == pc' # pc \/ i' # i \/ calls' # calls

C3_SessionLossStops ==
    [][(pc = "loop" /\ i <= Len(cFiles) /\ ~user /\ ChainStep)
          => (pc' = "finish" /\ fileProgress' = fileProgress /\ calls' = calls)]_vars

(***************************************************************************)
(* C4: per-file status is monotonic within one import run.  Stated as the  *)
(* claim has it: while a batch runs, an entry of the status map either     *)
(* keeps its status or moves pending -> processing or processing ->        *)
(* completed | error.                                                      *)
(***************************************************************************)
LegalMove(a, b) ==
    \/ a = b
    \/ a = "pending" /\ b = "processing"
    \/ a = "processing" /\ b \in Terminal

C4_Monotonic ==
    [][pc \notin {"idle", "done"}
          => \A n \in DOMAIN fileProgress \cap DOMAIN fileProgress' :
                LegalMove(fileProgress[n].status, fileProgress'[n].status)]_vars

(***************************************************************************)
(* C5: no note for empty content.  Every createNote and every              *)
(* processNoteWithAI call in the record is for a file whose extracted text *)
(* is non-empty after trimming, and the content handed to createNote is    *)
(* non-empty after trimming.                                               *)
(***************************************************************************)
ExtractedOf(f) == Extracted(Extractor(Extension(f.name)), f.text)

\* the file's reader, parser or OCR call was issued and gave a text that
\* is empty after trimming
YieldsEmpty(f) ==
    /\ Extractor(Extension(f.name)) # "unsupported"
    /\ ~f.xThrows
    /\ Trim(ExtractedOf(f)) = << >>

C5_NoNoteForEmpty ==
    \A k \in 1..Len(calls) :
        calls[k].op \in {"createNote", "processNoteWithAI"} =>
            /\ Trim(ExtractedOf(cFiles[calls[k].f])) # << >>
            /\ calls[k].op = "createNote" => Trim(calls[k].body) # << >>

\* a file whose text is blank was extracted and has returned, and the batch
\* also created a note for another file
C5_Witness ==
    \E j \in 1..Len(cFiles) :
        /\ HasReturned(j)
        /\ YieldsEmpty(cFiles[j])
        /\ \E k \in CallsFor(j) : calls[k].op = "extract"
        /\ \E k \in 1..Len(calls) : calls[k].op = "createNote"

(***************************************************************************)
(* C6: empty content ends 'completed' / 'No content'.  Stated as the claim *)
(* has it: a supported file whose extraction succeeded with a text that is *)
(* empty after trimming has, once it returned, 'completed' with message    *)
(* 'No content' as its last status.                                        *)
(***************************************************************************)
C6_EmptyCompletes ==
    \A j \in 1..Len(cFiles) :
        (HasReturned(j) /\ YieldsEmpty(cFiles[j])) =>
            /\ LastStatus(j).s = "completed"
            /\ LastStatus(j).m = MsgNoContent

(***************************************************************************)
(* C7: an unsupported file is skipped with 'Unsupported type'.  Stated as  *)
(* the claim has it: a file whose extension is outside the supported set   *)
(* has, once it returned, no extractor call and no createNote call, and    *)
(* 'error' with message 'Unsupported type' as its last status.             *)
(***************************************************************************)
C7_UnsupportedSkipped ==
    \A j \in 1..Len(cFiles) :
        (HasReturned(j) /\ Extension(cFiles[j].name) \notin AdvertisedExtensions) =>
            /\ \A k \in CallsFor(j) : calls[k].op = "status"
            /\ LastStatus(j).s = "error"
            /\ LastStatus(j).m = MsgUnsupported

(***************************************************************************)
(* C8: every advertised extension reaches an extractor.  Stated as the     *)
(* claim has it: a name whose extension, in any letter case, is one of     *)
(* pdf, txt, doc, docx, md, png, jpg, jpeg, bmp, gif is never dispatched   *)
(* to the unsupported branch.                                              *)
(***************************************************************************)
C8_AdvertisedDispatched ==
    (dKind # "none" /\ Extension(dName) \in AdvertisedExtensions)
        => dKind \in {"text", "pdf", "docx", "ocr"}

(***************************************************************************)
(* C9: the batch summary.  Stated as the claim has it: when the batch has  *)
(* ended, the 'all files processed' toast was issued only if no file       *)
(* ended in 'error', and otherwise the 'finished, check for errors' toast  *)
(* was.                                                                    *)
(***************************************************************************)
Toasted(kind) == \E k \in 1..Len(calls) : calls[k].op = "toast" /\ calls[k].s = kind

SomeFileFailed ==
    \E j \in 1..Len(cFiles) : HasReturned(j) /\ LastStatus(j).s = "error"

C9_Summary ==
    pc = "done" =>
        /\ Toasted("all-processed") => ~SomeFileFailed
        /\ SomeFileFailed => Toasted("finished-check-errors")

(***************************************************************************)
(* C10: the caches are invalidated at the end of every batch.  When the    *)
(* batch has ended, the record holds an invalidation of 'tags' and one of  *)
(* 'notes' that come after every call made for a file and before the       *)
(* navigation and before the clearing of the queue and of the status map.  *)
(***************************************************************************)
\* the positions at which handleImport itself invalidates `topic`
Invalidations(topic) ==
    {k \in 1..Len(calls) :
        calls[k].op = "invalidate" /\ calls[k].f = 0 /\ calls[k].s = topic}

Leaving == {k \in 1..Len(calls) : calls[k].op \in {"navigate", "setFiles", "setFileProgress"}}

C10_InvalidatesAtEnd ==
    pc = "done" =>
        /\ Cardinality(Leaving) = 3
        /\ \A topic \in {"tags", "notes"} :
              \E k \in Invalidations(topic) :
                  /\ \A m \in FileCalls : m < k
                  /\ \A m \in Leaving : k < m

\* a batch of two, one of which failed, has ended
C10_Witness ==
    /\ pc = "done"
    /\ Len(cFiles) = 2
    /\ SomeFileFailed
    /\ files = << >>
    /\ Invalidations("notes") # {}

(***************************************************************************)
(* C11: navigation after the batch.  Stated as the claim has it: when the  *)
(* batch has ended, the page shown is the main dashboard if a session      *)
(* exists at that moment, and is not the dashboard otherwise.              *)
(***************************************************************************)
C11_NavigatesBySession ==
    pc = "done" => (location = "/app" <=> user)

(***************************************************************************)
(* C12: batch termination.  When every call settles, a batch that has been *)
(* started comes to its end; and at the end isProcessing is false and the  *)
(* file queue and the status map are empty.                                *)
(***************************************************************************)
C12_BatchTerminates ==
    /\ [](pc = "done" =>
            (~isProcessing /\ files = << >> /\ fileProgress = EmptyMap))
    /\ (pc \notin {"idle", "done"}) ~> (pc = "done")

\* a batch of two has ended after extraction, createNote or
\* processNoteWithAI threw for one of its files
C12_Witness ==
    /\ pc = "done"
    /\ Len(cFiles) = 2
    /\ \E j \in 1..2 : Throws(cFiles[j])
    /\ ~isProcessing
    /\ fileProgress = EmptyMap

(***************************************************************************)
(* C13: the inputs of createNote.  Every createNote call in the record     *)
(* carries as title the file's name without its last extension (the whole  *)
(* name when nothing would be left or there is no dot), as content the     *)
(* text the file's extractor gave, status 'active', is_favorite false and  *)
(* is_archived false.                                                      *)
(***************************************************************************)
\* the positions of the dots after which a name has a removable extension
RemovableAt(name) == {p \in 2..Len(name) : name[p] = Dot}

WithoutLastExtension(name) ==
    IF RemovableAt(name) = {} THEN name
    ELSE SubSeq(name, 1,
                (CHOOSE p \in RemovableAt(name) : \A q \in RemovableAt(name) : q <= p) - 1)

C13_CreateNoteInputs ==
    \A k \in 1..Len(calls) :
        calls[k].op = "createNote" =>
            LET f == cFiles[calls[k].f]
            IN  /\ calls[k].title = WithoutLastExtension(f.name)
                /\ calls[k].body = ExtractedOf(f)
                /\ calls[k].s = "active"
                /\ calls[k].is_favorite = FALSE
                /\ calls[k].is_archived = FALSE

\* createNote was called for a file whose name has two dots and for a file
\* whose name has none
C13_Witness ==
    /\ \E k \in 1..Len(calls) :
          /\ calls[k].op = "createNote"
          /\ Cardinality(RemovableAt(cFiles[calls[k].f].name)) = 2
          /\ Dot \in {calls[k].title[m] : m \in 1..Len(calls[k].title)}
    /\ \E k \in 1..Len(calls) :
          /\ calls[k].op = "createNote"
          /\ RemovableAt(cFiles[calls[k].f].name) = {}
          /\ calls[k].title = cFiles[calls[k].f].name

(***************************************************************************)
(* C14: enrichment ordering.  Every processNoteWithAI call in the record   *)
(* comes after the createNote call of the same file, createNote returned a *)
(* record with an id for that file, and the call carries that id.  A file  *)
(* for which createNote returned no id has, once it returned, no           *)
(* processNoteWithAI call and 'error' as its last status.                  *)
(***************************************************************************)
\* the positions of the calls of `op` made for the file at queue position j
OpsFor(j, op) == {k \in CallsFor(j) : calls[k].op = op}

C14_EnrichmentOrdering ==
    /\ \A k \in 1..Len(calls) :
          calls[k].op = "processNoteWithAI" =>
              \E m \in OpsFor(calls[k].f, "createNote") :
                  /\ m < k
                  /\ cFiles[calls[k].f].create = "id"
                  /\ calls[k].id = NewId(SubSeq(calls, 1, m))
    /\ \A j \in 1..Len(cFiles) :
          (HasReturned(j) /\ OpsFor(j, "createNote") # {} /\ cFiles[j].create = "null") =>
              /\ OpsFor(j, "processNoteWithAI") = {}
              /\ LastStatus(j).s = "error"

\* createNote returned no id for the first file, which ended in 'error'
\* without enrichment; the second file's note is being enriched
C14_Witness ==
    /\ pc = "ai"
    /\ i = 2
    /\ cFiles[1].create = "null"
    /\ OpsFor(1, "createNote") # {}
    /\ OpsFor(1, "processNoteWithAI") = {}
    /\ LastStatus(1).m = MsgNoEntry
    /\ OpsFor(2, "processNoteWithAI") # {}

(***************************************************************************)
(* C15: enrichment failure.  A file whose note was created and whose       *)
(* processNoteWithAI call threw has, once it returned, never been          *)
(* 'completed' and has 'error' with the failure's message as its last      *)
(* status; after its processNoteWithAI call nothing was called for it but  *)
(* the tags callback and that status write, so the note is not deleted;    *)
(* and the batch went on: it leaves its loop only after the last file.     *)
(***************************************************************************)
\* the note of the file at position j was created and its enrichment threw
EnrichmentThrew(j) ==
    /\ HasReturned(j)
    /\ OpsFor(j, "processNoteWithAI") # {}
    /\ cFiles[j].ai = "throws"

C15_EnrichmentFailure ==
    \A j \in 1..Len(cFiles) :
        EnrichmentThrew(j) =>
            /\ LastStatus(j).s = "error"
            /\ LastStatus(j).m = MsgAi
            /\ \A k \in StatusWrites(j) : calls[k].s # "completed"
            /\ \A a \in OpsFor(j, "processNoteWithAI") :
                  \A k \in CallsFor(j) :
                      k > a => \/ calls[k].op = "invalidate"
                               \/ calls[k] = LastStatus(j)
            /\ pc \in {"finish", "done"} => i = Len(cFiles) + 1

\* the enrichment of the first file's note threw; the batch went on to the
\* second file and has ended
C15_Witness ==
    /\ pc = "done"
    /\ Len(cFiles) = 2
    /\ EnrichmentThrew(1)
    /\ OpsFor(1, "createNote") # {}
    /\ StatusWrites(2) # {}

(***************************************************************************)
(* C16: no retry and no deduplication.  For a file that has been through   *)
(* processSingleFile, createNote was called exactly once if its type is    *)
(* supported and its extraction gave a text that is non-empty after        *)
(* trimming, and not at all otherwise; for every file createNote and       *)
(* processNoteWithAI were each called at most once; and two                *)
(* processNoteWithAI calls never carry the same note id, so the same file  *)
(* queued twice gives two createNote calls and two notes.                  *)
(***************************************************************************)
\* the file has a supported type and its extraction gives non-empty content
HasContent(f) ==
    /\ Extractor(Extension(f.name)) # "unsupported"
    /\ ~f.xThrows
    /\ Trim(ExtractedOf(f)) # << >>

C16_OncePerEntry ==
    /\ \A j \in 1..Len(cFiles) :
          /\ Cardinality(OpsFor(j, "createNote")) <= 1
          /\ Cardinality(OpsFor(j, "processNoteWithAI")) <= 1
          /\ HasReturned(j) =>
                Cardinality(OpsFor(j, "createNote")) = (IF HasContent(cFiles[j]) THEN 1 ELSE 0)
    /\ \A k, m \in 1..Len(calls) :
          (calls[k].op = "processNoteWithAI" /\ calls[m].op = "processNoteWithAI" /\ k # m)
              => calls[k].id # calls[m].id

\* the same file was queued twice: the batch has ended with two createNote
\* calls and two notes
C16_Witness ==
    /\ pc = "done"
    /\ Len(cFiles) = 2
    /\ cFiles[1] = cFiles[2]
    /\ OpsFor(1, "createNote") # {} /\ OpsFor(2, "createNote") # {}
    /\ \E a \in OpsFor(1, "processNoteWithAI") :
          \E b \in OpsFor(2, "processNoteWithAI") : calls[a].id # calls[b].id

(***************************************************************************)
(* C17: the optimistic flip and its rollback.  A step that starts          *)
(* handleToggleFavorite for a note of the 'notes' cache leaves the note's  *)
(* cached flag at the opposite of currentIsFavorite, with the backend call *)
(* still pending; a step in which the backend call of a toggle reports     *)
(* failure leaves the flag at the value it had before that toggle.         *)
(***************************************************************************)
InCache(notes, nid) == \E k \in 1..Len(notes) : notes[k].id = nid

FlagOf(notes, nid) ==
    notes[CHOOSE k \in 1..Len(notes) : notes[k].id = nid].is_favorite

\* this step is the failure branch of toggle t
Fails(t) == toggles[t].result = "pending" /\ toggles'[t].result = "failed"

C18_RollbackIsInverse ==
    [][(/\ Len(toggles) = 1
        /\ Fails(1)
        /\ notesCache = toggles[1].notesAfter
        /\ favCache = toggles[1].favAfter)
          => (/\ notesCache' = toggles[1].notesBefore
              /\ favCache' = toggles[1].favBefore)]_vars

(***************************************************************************)
(* C19: the start preconditions.  A step taken while no batch runs and the *)
(* queue is empty or there is no session starts no batch: nothing becomes  *)
(* 'processing', nothing is called, no cache is invalidated and            *)
(* isProcessing stays as it is; the step in which handleImport refuses to  *)
(* start leaves the queue and the status map unchanged, and when it        *)
(* refuses for want of a session the user is sent to the login page.       *)
(***************************************************************************)
\* the toasts with which handleImport refuses to start
Refusals == {"select-files", "not-logged-in"}

C19_StartPreconditions ==
    [][(pc = "idle" /\ (Len(files) = 0 \/ ~user)) =>
          /\ pc' = "idle"
          /\ calls' = calls
          /\ isProcessing' = isProcessing
          /\ \A n \in DOMAIN fileProgress' : fileProgress'[n].status # "processing"
          /\ (notices' \cap Refusals) # (notices \cap Refusals) =>
                /\ files' = files
                /\ fileProgress' = fileProgress
          /\ ("not-logged-in" \in notices' /\ "not-logged-in" \notin notices) =>
                location' = "/login"]_vars

\* handleImport was called with an empty queue and, later, with files
\* queued but without a session: no call was made, the files are still
\* queued and 'pending', and the login page is shown
C19_Witness ==
    /\ Refusals \subseteq notices
    /\ ~user
    /\ Len(files) > 0
    /\ \A n \in DOMAIN fileProgress : fileProgress[n].status = "pending"
    /\ calls = << >>
    /\ ~isProcessing
    /\ location = "/login"

(***************************************************************************)
(* C20: removing a file before the import starts.  Stated as the claim has *)
(* it: a step that removes from the queue while no batch runs takes out    *)
(* one file; afterwards no queued file has its name and the status map has *)
(* no entry for it, and the other queued files and the other entries are   *)
(* as before.                                                              *)
(***************************************************************************)
\* the queue without its k-th file
Without(fs, k) == SubSeq(fs, 1, k - 1) \o SubSeq(fs, k + 1, Len(fs))

C20_RemoveIsEffective ==
    [][(pc = "idle" /\ Len(files') < Len(files)) =>
          \E k \in 1..Len(files) :
              /\ files' = Without(files, k)
              /\ files[k].name \notin NamesOf(files')
              /\ files[k].name \notin DOMAIN fileProgress'
              /\ \A n \in DOMAIN fileProgress \ {files[k].name} :
                    n \in DOMAIN fileProgress' /\ fileProgress'[n] = fileProgress[n]]_vars

(***************************************************************************)
(* C21: the queue is immutable while a batch runs.  From the step that     *)
(* starts an import until the step that ends it, no step changes the queue *)
(* (the last step of the batch clears it), and no step starts an import    *)
(* again: the files the running batch works on stay the same and its loop  *)
(* never goes back.                                                        *)
(***************************************************************************)
Running == pc \notin {"idle", "done"}

C21_QueueImmutable ==
    [][Running =>
          /\ files' = files \/ (pc = "finish" /\ pc' = "done" /\ files' = << >>)
          /\ cFiles' = cFiles
          /\ i' >= i
          /\ isProcessing' = isProcessing \/ pc' = "done"]_vars

\* a batch of two is at the createNote call of its second file, the page is
\* still shown, and the queue is the one the batch was started with
C21_Witness ==
    /\ pc = "create"
    /\ i = 2
    /\ isProcessing
    /\ location = "import"
    /\ Len(files) = 2
    /\ files = cFiles

(***************************************************************************)
(* C22: PDF extraction.  The pages fetched so far are 1, 2, ... in this    *)
(* order, each once; and when the content is assigned every page of the    *)
(* document has been fetched, and the content is the trimmed join, by      *)
(* newlines and in page order, of the pages' texts, a page's text being    *)
(* its items joined by single spaces.                                      *)
(***************************************************************************)
PageTexts(doc) == [k \in 1..Len(doc) |-> Join(doc[k], <<Space>>)]

C22_PdfPagesInOrder ==
    /\ pdfPages = [k \in 1..Len(pdfPages) |-> k]
    /\ pdfContent # << >> =>
          /\ Len(pdfPages) = Len(pdfDoc)
          /\ pdfContent[1] = Trim(Join(PageTexts(pdfDoc), <<Newline>>))

\* a document of two different pages with text was read: the content has
\* the first page's text, a newline, and the second page's text
C22_Witness ==
    /\ Len(pdfDoc) = 2
    /\ pdfDoc[1] = <<(<<"a">>), (<<"b">>)>>
    /\ pdfDoc[2] = <<(<<"b">>)>>
    /\ pdfContent = << <<"a", Space, "b", Newline, "b">> >>

(***************************************************************************)
(* C23: in every reachable state the keys of the status map are the        *)
(* display names of the queued files: after a select, a drop, a removal,   *)
(* during a batch and after the final clear.                               *)
(***************************************************************************)
C23_OneEntryPerName == DOMAIN fileProgress = NamesOf(files)

\* the second of two differently named files is being processed, the first
\* has its terminal status
C23_Witness ==
    /\ pc = "extract"
    /\ i = 2
    /\ Len(files) = 2
    /\ files[1].name # files[2].name
    /\ Cardinality(DOMAIN fileProgress) = 2
    /\ StatusIn(fileProgress, files[1].name) = "error"
    /\ StatusIn(fileProgress, files[2].name) = "processing"

(***************************************************************************)
(* C24: same-named files share one status entry.  While a batch runs, two  *)
(* queued files of one display name are both in the queue and have one     *)
(* entry between them; once the later one has been through                 *)
(* processSingleFile both have been processed; and from the later file's   *)
(* first status write on, the entry holds the last status written for the  *)
(* later file (for the last of the files of that name that has started,    *)
(* when there are more than two), whatever was recorded for the earlier    *)
(* one.                                                                    *)
(***************************************************************************)
SameName(j, k) == j < k /\ cFiles[j].name = cFiles[k].name

\* the last queue position of the given name for which a status was written
LatestWriter(name) ==
    LET started == {m \in 1..Len(cFiles) :
                       cFiles[m].name = name /\ StatusWrites(m) # {}}
    IN  CHOOSE m \in started : \A n \in started : n <= m

C24_SameNameShareEntry ==
    Running =>
       \A j, k \in 1..Len(cFiles) :
          SameName(j, k) =>
             /\ files = cFiles
             /\ Cardinality(DOMAIN fileProgress) < Len(files)
             /\ HasReturned(k) => StatusWrites(j) # {} /\ StatusWrites(k) # {}
             /\ StatusWrites(k) # {} =>
                   /\ LatestWriter(cFiles[k].name) >= k
                   /\ fileProgress[cFiles[k].name]
                         = Entry(LastStatus(LatestWriter(cFiles[k].name)).s,
                                 LastStatus(LatestWriter(cFiles[k].name)).m)

\* two files named a.txt: the first completed, the second failed, and the
\* entry they share says 'error'
C24_Witness ==
    /\ pc = "finish"
    /\ Len(cFiles) = 2
    /\ SameName(1, 2)
    /\ LastStatus(1).s = "completed"
    /\ LastStatus(2).s = "error"
    /\ DOMAIN fileProgress = {cFiles[1].name}
    /\ StatusIn(fileProgress, cFiles[1].name) = "error"

(***************************************************************************)
(* C25: status updates are per key.  A status write made for the file at   *)
(* one position of the queue leaves the entries of the files at all other  *)
(* positions as they were, so that after it the files not yet started are  *)
(* 'pending' and the files already processed have a terminal status.       *)
(***************************************************************************)
\* the step writes a status for a file of the running batch
WritesStatus ==
    /\ pc' \notin {"idle", "done"}
    /\ calls' # calls
    /\ fileProgress' # fileProgress

\* the queue position of the file the step's status write is for
Written == calls'[Len(calls')].f

C25_PerKeyWrites ==
    [][WritesStatus =>
          \A j \in 1..Len(cFiles') :
             /\ j # Written =>
                   fileProgress'[cFiles'[j].name] = fileProgress[cFiles'[j].name]
             /\ j > Written =>
                   StatusIn(fileProgress', cFiles'[j].name) = "pending"
             /\ j < Written =>
                   StatusIn(fileProgress', cFiles'[j].name) \in Terminal]_vars

(***************************************************************************)
(* C26: isAuthenticating is true in every state in which at least one      *)
(* signIn, signUp, signOut or resetPassword call is in flight, overlapping *)
(* calls included, and false when none is.                                 *)
(***************************************************************************)
C26_AuthenticatingWhileInFlight == isAuthenticating <=> inFlight # << >>

(***************************************************************************)
(* C27: loading is true from mount until the first auth-state notification *)
(* or the failure to subscribe, false from then on, and never true again;  *)
(* isAuthenticated is true exactly when user and session are both          *)
(* non-null; and the user is the user of the current session (none when    *)
(* there is no session).                                                   *)
(***************************************************************************)
C27_LoadingAndIdentity ==
    /\ [](/\ initialLoading <=> ~(notified \/ SubscriptionFailed)
          /\ isAuthenticated <=> (authUser \in AuthUsers /\ session \in Sessions)
          /\ session.present => authUser = session.user
          /\ ~session.present => authUser = NoUser)
    /\ [][initialLoading' => initialLoading]_vars

\* a session was notified after another one: loading is over, and the user
\* is that of the current session
C27_Witness ==
    /\ notified
    /\ subscription = "established"
    /\ ~initialLoading
    /\ session.present
    /\ authUser = "u2"
    /\ isAuthenticated
    /\ authStarted = 1

(***************************************************************************)
(* C28: overlapping favourite toggles.  When two or more                   *)
(* handleToggleFavorite calls for one note were in flight at once, each    *)
(* started from the flag displayed at that moment, and the backend call of *)
(* every one of them has failed, the cached is_favorite flag of the note   *)
(* is the one it had before the first toggle.                              *)
(***************************************************************************)
\* every toggle from the second on was made for the first one's note, from
\* the flag the toggle before it had put on display and not yet taken back
Overlapping ==
    /\ Len(toggles) >= 2
    /\ \A t \in 2..Len(toggles) :
          /\ toggles[t].noteId = toggles[1].noteId
          /\ toggles[t].currentIsFavorite # toggles[t-1].currentIsFavorite

AllFailed == \A t \in 1..Len(toggles) : toggles[t].result = "failed"

C28_OverlappingTogglesRestore ==
    (Overlapping /\ AllFailed) =>
        FlagOf(notesCache, toggles[1].noteId) = toggles[1].currentIsFavorite

(***************************************************************************)
(* C29: dashboard tag filtering.  In every state in which a tag filter is  *)
(* active, every displayed note carries one of the active tags, as a bare  *)
(* id or as a tag object; and a search filter and a tag filter are never   *)
(* in effect together.                                                     *)
(***************************************************************************)
SearchInEffect == Trim(debouncedSearchTerm) # << >>

HasDot(name) == \E k \in 1..Len(name) : name[k] = Dot

C30_DotlessUnsupported ==
    \A j \in 1..Len(cFiles) :
        ~HasDot(cFiles[j].name) =>
            /\ OpsFor(j, "extract") = {}
            /\ OpsFor(j, "createNote") = {}
            /\ HasReturned(j) => LastStatus(j).s = "error"

====
